---- MODULE Spec2Model ----
(***************************************************************************)
(* Batch pipeline of the liquidation/price analysis:                       *)
(*   src/src/parse_aggregate.py     raw messages -> per-interval buckets   *)
(*   src/src/build_dataset.py       buckets |x| price bars -> dataset      *)
(*   src/src/analyze_correlation.py dataset -> correlation / event study   *)
(* Every stage is a script run to completion; a run is one atomic action   *)
(* on the files below data/.                                               *)
(*                                                                         *)
(* Representation.  Instants are integers, milliseconds since a UTC        *)
(* midnight.  A text is a sequence of one-character strings.  A float      *)
(* amount is an integer number of cents.  NaN / NaT / None are the model   *)
(* values below.                                                           *)
(***************************************************************************)
EXTENDS Integers, Sequences, FiniteSets, TLC

\* ------------------------------------------------------------------ values
\* None of a str-valued result; None of a text-valued result (a text holds
\* one-character strings only, so this is no text)
None == "None"
NoneSeq == <<"None">>
\* a float / datetime cell: a value, or NaN / NaT / None
Some(v) == [def |-> TRUE, val |-> v]
NaN == [def |-> FALSE, val |-> 0]
NaT == NaN

\* pandas offsets "1H" and "1D" in milliseconds
HourMs == 3600000
DayMs == 86400000

\* ------------------------------------------------------------------ text
Upper == <<"A","B","C","D","E","F","G","H","I","J","K","L","M",
           "N","O","P","Q","R","S","T","U","V","W","X","Y","Z">>
LowerSeq == <<"a","b","c","d","e","f","g","h","i","j","k","l","m",
              "n","o","p","q","r","s","t","u","v","w","x","y","z">>
Digits == <<"0","1","2","3","4","5","6","7","8","9">>

Range(s) == {s[i] : i \in DOMAIN s}

\* str.lower() on one character
Lower(c) ==
    IF \E i \in DOMAIN Upper : Upper[i] = c
    THEN LowerSeq[CHOOSE i \in DOMAIN Upper : Upper[i] = c]
    ELSE c

DigitChars == Range(Digits)
IsDigit(c) == c \in DigitChars
IsLetter(c) == Lower(c) \in Range(LowerSeq)
\* regex \w, \s
IsWordChar(c) == IsLetter(c) \/ IsDigit(c) \/ c = "_"
SpaceChars == {" ", "\t", "\n"}

DigitVal(c) == (CHOOSE i \in DOMAIN Digits : Digits[i] = c) - 1

\* regex \b before index i (1-based) of text t
WordBoundary(t, i) ==
    LET before == i - 1 \in DOMAIN t /\ IsWordChar(t[i - 1])
        after == i \in DOMAIN t /\ IsWordChar(t[i])
    IN before # after

\* literal lit matches t at index i; ci = re.I
MatchLit(t, i, lit, ci) ==
    /\ i >= 1
    /\ i + Len(lit) - 1 <= Len(t)
    /\ \A k \in DOMAIN lit :
          IF ci THEN Lower(t[i + k - 1]) = Lower(lit[k]) ELSE t[i + k - 1] = lit[k]

\* least element of a non-empty set of integers
MinOf(S) == CHOOSE x \in S : \A y \in S : x <= y
MaxOf(S) == CHOOSE x \in S : \A y \in S : x >= y

\* first index >= i of t whose character is not in cls (Len(t)+1 if none):
\* the end of a greedy run cls*
RunEnd(t, i, cls) ==
    MinOf({k \in i..(Len(t) + 1) : k = Len(t) + 1 \/ t[k] \notin cls})

L_Liquidated == <<"L","i","q","u","i","d","a","t","e","d">>
L_Long == <<"L","o","n","g">>
L_Short == <<"S","h","o","r","t">>
L_Buy == <<"B","u","y">>
L_Sell == <<"S","e","l","l">>
L_on == <<"o","n">>
L_at == <<"a","t">>

\* SIDE_RE = \bLiquidated\s+(Long|Short)\b, re.I : the match starting at i,
\* as the captured group lower-cased, or None
SideMatchAt(t, i) ==
    IF ~(WordBoundary(t, i) /\ MatchLit(t, i, L_Liquidated, TRUE)) THEN None
    ELSE LET j == i + Len(L_Liquidated)
             k == RunEnd(t, j, SpaceChars)
         IN IF k = j THEN None
            ELSE IF MatchLit(t, k, L_Long, TRUE) /\ WordBoundary(t, k + Len(L_Long))
                 THEN "long"
            ELSE IF MatchLit(t, k, L_Short, TRUE) /\ WordBoundary(t, k + Len(L_Short))
                 THEN "short"
            ELSE None

\* SIDE_RE.search(text): leftmost match
SideSearch(t) ==
    LET hits == {i \in DOMAIN t : SideMatchAt(t, i) # None}
    IN IF hits = {} THEN None ELSE SideMatchAt(t, MinOf(hits))

AmountChars == DigitChars \cup {","}

\* AMOUNT_RE = :\s*(?:Buy|Sell)\s*\$([\d,]+(?:\.\d+)?) (case-sensitive): the
\* captured group of the match starting at i, or None
AmountMatchAt(t, i) ==
    IF ~(i \in DOMAIN t /\ t[i] = ":") THEN NoneSeq
    ELSE LET j == RunEnd(t, i + 1, SpaceChars)
             w == IF MatchLit(t, j, L_Buy, FALSE) THEN Len(L_Buy)
                  ELSE IF MatchLit(t, j, L_Sell, FALSE) THEN Len(L_Sell)
                  ELSE 0
             k == RunEnd(t, j + w, SpaceChars)
         IN IF w = 0 \/ ~(k \in DOMAIN t /\ t[k] = "$") THEN NoneSeq
            ELSE LET m == RunEnd(t, k + 1, AmountChars)
                     f == IF m \in DOMAIN t /\ t[m] = "." THEN RunEnd(t, m + 1, DigitChars) ELSE m
                     e == IF f > m + 1 THEN f ELSE m
                 IN IF m = k + 1 THEN NoneSeq ELSE SubSeq(t, k + 1, e - 1)

AmountSearch(t) ==
    LET hits == {i \in DOMAIN t : AmountMatchAt(t, i) # NoneSeq}
    IN IF hits = {} THEN NoneSeq ELSE AmountMatchAt(t, MinOf(hits))

\* str.replace(",", "")
StripCommas(s) == SelectSeq(s, LAMBDA c : c # ",")

\* value of a string of decimal digits ("" counts 0)
DigitsValue(s) ==
    LET v[k \in 0..Len(s)] == IF k = 0 THEN 0 ELSE 10 * v[k - 1] + DigitVal(s[k])
    IN v[Len(s)]

\* float(s) of a string of digits with an optional fraction, in cents;
\* NaN stands for the ValueError float() raises on the empty string
ParseFloat(s) ==
    LET dot == {i \in DOMAIN s : s[i] = "."}
        ip == IF dot = {} THEN s ELSE SubSeq(s, 1, MinOf(dot) - 1)
        fp == IF dot = {} THEN <<>> ELSE SubSeq(s, MinOf(dot) + 1, Len(s))
        f2 == SubSeq(fp \o <<"0", "0">>, 1, 2)
    IN IF ip = <<>> /\ fp = <<>> THEN NaN
       ELSE Some(DigitsValue(ip) * 100 + DigitsValue(f2))

SymbolChars == Range(Upper) \cup Range(LowerSeq) \cup DigitChars \cup {"_", "-", "/", ":"}

\* SYMBOL_RE = \bon\s+([A-Z0-9_\-/:]+)\s+at\b, re.I
SymbolMatchAt(t, i) ==
    IF ~(WordBoundary(t, i) /\ MatchLit(t, i, L_on, TRUE)) THEN NoneSeq
    ELSE LET j == i + Len(L_on)
             k == RunEnd(t, j, SpaceChars)
             m == RunEnd(t, k, SymbolChars)
             n == RunEnd(t, m, SpaceChars)
         IN IF k > j /\ m > k /\ n > m /\ MatchLit(t, n, L_at, TRUE)
               /\ WordBoundary(t, n + Len(L_at))
            THEN SubSeq(t, k, m - 1) ELSE NoneSeq

SymbolSearch(t) ==
    LET hits == {i \in DOMAIN t : SymbolMatchAt(t, i) # NoneSeq}
    IN IF hits = {} THEN NoneSeq ELSE SymbolMatchAt(t, MinOf(hits))

\* parse_row(text): [raised, side, amount_usd, symbol]; raised = float() raised
Rejected ==
    [raised |-> FALSE, exc |-> "", side |-> None, amount_usd |-> NaN, symbol |-> NoneSeq]

\* the text cell read_csv gives for an empty cell: the float nan, which is
\* true in a condition and which re refuses to search
NaNText == <<"nan">>

parse_row(text) ==
    IF text = <<>> THEN Rejected
    ELSE IF text = NaNText THEN [Rejected EXCEPT !.raised = TRUE, !.exc = "TypeError"]
    ELSE LET side == SideSearch(text) IN
         IF side = None THEN Rejected
         ELSE LET amt == AmountSearch(text) IN
              IF amt = NoneSeq THEN Rejected
              ELSE LET v == ParseFloat(StripCommas(amt)) IN
                   IF ~v.def THEN [Rejected EXCEPT !.raised = TRUE, !.exc = "ValueError"]
                   ELSE [raised |-> FALSE, exc |-> "", side |-> side, amount_usd |-> v,
                         symbol |-> SymbolSearch(text)]

\* str.contains(pat, case=False, na=False) for a pattern of letters, digits and
\* dots: the pattern is a regular expression, a dot in it stands for any
\* character but a newline; a missing text contains nothing
Contains(text, pat) ==
    /\ text # NaNText
    /\ \E i \in 1..(Len(text) - Len(pat) + 1) :
          \A k \in DOMAIN pat :
             IF pat[k] = "." THEN text[i + k - 1] # "\n"
             ELSE Lower(text[i + k - 1]) = Lower(pat[k])

\* ------------------------------------------------------------------ message texts
SP == <<" ">>
W_BTCUSDT == <<"B","T","C","U","S","D","T">>
W_ETHUSDT == <<"E","T","H","U","S","D","T">>
\* "Liquidated Long: Buy $12,500 on BTCUSDT at 4"
TxtLongBTC ==
    L_Liquidated \o SP \o L_Long \o <<":", " ">> \o L_Buy \o SP
      \o <<"$","1","2",",","5","0","0">> \o SP \o L_on \o SP \o W_BTCUSDT \o SP \o L_at
      \o <<" ", "4">>
\* "Liquidated Short: Sell $8,000 on BTCUSDT at 4"
TxtShortBTC ==
    L_Liquidated \o SP \o L_Short \o <<":", " ">> \o L_Sell \o SP
      \o <<"$","8",",","0","0","0">> \o SP \o L_on \o SP \o W_BTCUSDT \o SP \o L_at
      \o <<" ", "4">>
\* "liquidated short: Sell $300.5 on ETHUSDT at 2"
TxtShortETH ==
    <<"l","i","q","u","i","d","a","t","e","d"," ","s","h","o","r","t",":"," ">>
      \o L_Sell \o SP \o <<"$","3","0","0",".","5">> \o SP \o L_on \o SP \o W_ETHUSDT
      \o SP \o L_at \o <<" ", "2">>
\* "Liquidated Long btc $5": a side, no Buy/Sell amount
TxtNoAmount ==
    L_Liquidated \o SP \o L_Long \o <<" ","b","t","c"," ","$","5">>
Texts == {TxtLongBTC, TxtShortBTC, TxtShortETH, TxtNoAmount}

\* "Buy $500 on BTCUSDT at 4": an amount and a symbol, no side phrase
TxtNoSide ==
    L_Buy \o SP \o <<"$","5","0","0">> \o SP \o L_on \o SP \o W_BTCUSDT \o SP \o L_at
      \o <<" ", "4">>
\* "Liquidated Long: Buy $, on BTCUSDT at 4": an amount of grouping commas only
TxtCommaAmount ==
    L_Liquidated \o SP \o L_Long \o <<":", " ">> \o L_Buy \o SP \o <<"$", ",">> \o SP
      \o L_on \o SP \o W_BTCUSDT \o SP \o L_at \o <<" ", "4">>
\* "Liquidated Long: Buy $5 btc": no symbol pattern, the filter word in the text
TxtNoSymbol ==
    L_Liquidated \o SP \o L_Long \o <<":", " ">> \o L_Buy \o SP \o <<"$","5"," ","b","t","c">>
\* "Liquidated Short: Sell $7": no symbol pattern, no filter word
TxtBare ==
    L_Liquidated \o SP \o L_Short \o <<":", " ">> \o L_Sell \o SP \o <<"$","7">>
\* "Liquidated Long: buy $5 on BTCUSDT at 4": the label in lower case
TxtLowerLabel ==
    L_Liquidated \o SP \o L_Long \o <<":", " ", "b", "u", "y", " ", "$", "5">> \o SP
      \o L_on \o SP \o W_BTCUSDT \o SP \o L_at \o <<" ", "4">>
\* the texts parse_row is examined on: the ones above and the text of an empty
\* cell
ParseTexts ==
    Texts \cup {NaNText, TxtNoSide, TxtCommaAmount, TxtNoSymbol, TxtBare,
                TxtLowerLabel}

F_BTC == <<"B","T","C">>
Filters == {<<>>, F_BTC}
\* "B.C", a filter with a character that is special in a regular expression
F_BdotC == <<"B",".","C">>
ParseFilters == Filters \cup {F_BdotC}

\* str.contains over the message texts and the filters, computed once
FilterHits == [t \in ParseTexts, f \in ParseFilters |-> Contains(t, f)]
\* df["text"].str.contains(SYMBOL_FILTER, case=False, na=False), one cell
TextContains(text, filter) == FilterHits[text, filter]

\* parse_row over the message texts, computed once
ParsedText == [t \in ParseTexts |-> parse_row(t)]
\* df["text"].apply(parse_row), one cell
Parsed(text) == ParsedText[text]

\* ------------------------------------------------------------------ files
\* a CSV file: its header (cols) and its rows, each row a record over cols
NoFile == [exists |-> FALSE, cols |-> <<>>, rows |-> <<>>]
Table(cols, rows) == [exists |-> TRUE, cols |-> cols, rows |-> rows]

RAW_COLS == <<"message_id", "timestamp_utc", "text">>
LIQ_COLS == <<"timestamp_utc", "long_liq_usd", "short_liq_usd", "long_count", "short_count">>

\* values AGG_INTERVAL takes after .upper(): the two valid widths and another
IntervalNames == {"1H", "1D", "4H"}

\* rule = "1H" if INTERVAL == "1H" else "1D" if INTERVAL == "1D" else None
RuleOf(interval) ==
    IF interval = "1H" THEN "1H" ELSE IF interval = "1D" THEN "1D" ELSE None
WidthMs(rule) == IF rule = "1H" THEN HourMs ELSE DayMs

\* outcome of a stage's last run
NotRun == [status |-> "none", exc |-> "", names |-> {}]
Ok == [status |-> "ok", exc |-> "", names |-> {}]
\* an uncaught exception of type exc whose message names the columns `names`
Raised(exc, names) == [status |-> "error", exc |-> exc, names |-> names]

VARIABLES
    INTERVAL,       \* os.getenv("AGG_INTERVAL", "1H").upper()
    SYMBOL_FILTER,  \* os.getenv("SYMBOL_FILTER", "BTC")
    raw,            \* data/raw/telegram_messages.csv
    price,          \* data/raw/btc_price.csv
    liqs,           \* data/processed/liqs_<name>.csv, by <name>
    dataset,        \* data/processed/dataset.csv
    corr_out,       \* data/processed/correlation_summary.csv
    events_out,     \* data/processed/event_study_summary.csv
    processedDir,   \* data/processed exists
    exit,           \* outcome of each stage's last run
    exchange,       \* the klines the exchange answers a request with
    fetch_pc,       \* where binance_fetch_price.py is: idle, request, returned, raised
    start_ms,       \* fetch_binance_klines: the cursor
    end_ms,         \* fetch_binance_klines: the end of the window
    attempt,        \* fetch_binance_klines: the attempt of the retry loop
    page,           \* fetch_binance_klines: rows, the page of the last answer
    all_chunks,     \* fetch_binance_klines: the frames of the pages so far
    asked,          \* the startTime of the request each frame of all_chunks answered
    returned,       \* fetch_binance_klines: out, the frame it returned
    step,           \* run_analysis.py: the place in steps of the stage to run next
    started,        \* run_analysis.py: the scripts it has started, in order
    status          \* run_analysis.py: the status it exited with

stageVars == <<INTERVAL, SYMBOL_FILTER, raw, price, liqs, dataset, corr_out, events_out,
               processedDir, exit>>
fetchVars == <<exchange, fetch_pc, start_ms, end_ms, attempt, page, all_chunks, asked, returned>>
runVars == <<step, started, status>>
vars == <<stageVars, fetchVars, runVars>>

Stages == {"parse", "build", "analyze"}
\* the scripts whose outcome exit keeps: the stages and the two fetches
Scripts == Stages \cup {"telegram", "price"}

\* ------------------------------------------------------------------ sorting
\* the elements of a finite set of integers in ascending order
SortedSeq(S) ==
    [n \in 1..Cardinality(S) |->
        CHOOSE x \in S : Cardinality({y \in S : y < x}) = n - 1]

\* sum of a sequence of integers
SumSeq(q) ==
    LET acc[k \in 0..Len(q)] == IF k = 0 THEN 0 ELSE acc[k - 1] + q[k]
    IN acc[Len(q)]

\* a set of events (each of another row i) in row order
InRowOrder(es) ==
    [n \in 1..Cardinality(es) |->
        CHOOSE e \in es : Cardinality({x \in es : x.i < e.i}) = n - 1]

\* sum of amount_usd over a set of events
SumAmounts(es) == LET q == InRowOrder(es) IN SumSeq([k \in DOMAIN q |-> q[k].amount_usd])

\* ------------------------------------------------------------------ parse_aggregate.py
\* df after lines 60-68: the indices of the rows that parsed to an event and
\* whose raw text contains the symbol filter
KeptRows(rows, filter) ==
    {i \in DOMAIN rows :
        /\ Parsed(rows[i].text).side # None
        /\ Parsed(rows[i].text).amount_usd.def
        /\ (filter = <<>> \/ TextContains(rows[i].text, filter))}

\* df after lines 78-79: the kept rows with a valid timestamp, as events
\* (the row index keeps equal events apart)
Events(rows, filter) ==
    {[i |-> i, ts |-> rows[i].timestamp_utc.val, side |-> Parsed(rows[i].text).side,
      amount_usd |-> Parsed(rows[i].text).amount_usd.val] :
        i \in {k \in KeptRows(rows, filter) : rows[k].timestamp_utc.def}}

\* label of the bin pandas puts instant ts in: resample(rule) closes and labels
\* hourly and daily bins on the left
BinLabel(ts, w) == (ts \div w) * w

\* df[df["side"] == side].resample(rule): the bins, from the one of the first
\* event of that side to the one of the last, empty bins included
Bins(events, side, w) ==
    LET ts == {e.ts : e \in {x \in events : x.side = side}}
    IN IF ts = {} THEN {}
       ELSE {BinLabel(MinOf(ts), w) + k * w :
                k \in 0..((BinLabel(MaxOf(ts), w) - BinLabel(MinOf(ts), w)) \div w)}

InBin(events, side, w, label) ==
    {e \in events : e.side = side /\ BinLabel(e.ts, w) = label}

\* ...["amount_usd"].sum() and ...["side"].count() of one bin
BinSum(events, side, w, label) ==
    SumAmounts(InBin(events, side, w, label))
BinCount(events, side, w, label) == Cardinality(InBin(events, side, w, label))

\* Aggregate with the frame built on the bins of the long series alone
AggregateLongIndex(evs, w) ==
    LET L == Bins(evs, "long", w)
        labels == SortedSeq(L)
    IN [n \in DOMAIN labels |->
          LET b == labels[n] IN
          [timestamp_utc |-> b,
           long_liq_usd |-> BinSum(evs, "long", w, b),
           short_liq_usd |-> BinSum(evs, "short", w, b),
           long_count |-> BinCount(evs, "long", w, b),
           short_count |-> BinCount(evs, "short", w, b)]]

\* lines 85-96: the four resampled series side by side on the union of their
\* bins, a series' missing bins filled with 0, as rows in ascending time
Aggregate(evs, w) ==
    LET L == Bins(evs, "long", w)
        S == Bins(evs, "short", w)
        labels == SortedSeq(L \cup S)
    IN [n \in DOMAIN labels |->
          LET b == labels[n] IN
          [timestamp_utc |-> b,
           long_liq_usd |-> IF b \in L THEN BinSum(evs, "long", w, b) ELSE 0,
           short_liq_usd |-> IF b \in S THEN BinSum(evs, "short", w, b) ELSE 0,
           long_count |-> IF b \in L THEN BinCount(evs, "long", w, b) ELSE 0,
           short_count |-> IF b \in S THEN BinCount(evs, "short", w, b) ELSE 0]]

HasCol(file, c) == c \in Range(file.cols)

\* main() of parse_aggregate.py
ParseAggregate ==
    IF ~raw.exists THEN
        /\ exit' = [exit EXCEPT !["parse"] = Raised("FileNotFoundError", {})]
        /\ UNCHANGED <<INTERVAL, SYMBOL_FILTER, raw, price, liqs, dataset, corr_out,
                       events_out, processedDir>>
    ELSE
        /\ processedDir' = TRUE
        /\ UNCHANGED <<INTERVAL, SYMBOL_FILTER, raw, price, dataset, corr_out, events_out>>
        /\ IF ~HasCol(raw, "timestamp_utc") \/ ~HasCol(raw, "text") THEN
               /\ exit' = [exit EXCEPT !["parse"] =
                              Raised("ValueError", {"timestamp_utc", "text"})]
               /\ UNCHANGED liqs
           \* df["text"].apply(parse_row) ends at the first row parse_row raises on
           ELSE IF \E i \in DOMAIN raw.rows : Parsed(raw.rows[i].text).raised THEN
               /\ exit' = [exit EXCEPT !["parse"] =
                     Raised(Parsed(raw.rows[MinOf({i \in DOMAIN raw.rows :
                                Parsed(raw.rows[i].text).raised})].text).exc, {})]
               /\ UNCHANGED liqs
           ELSE IF KeptRows(raw.rows, SYMBOL_FILTER) = {} THEN
               /\ liqs' = [liqs EXCEPT ![INTERVAL] = Table(LIQ_COLS, <<>>)]
               /\ exit' = [exit EXCEPT !["parse"] = Ok]
           ELSE IF RuleOf(INTERVAL) = None THEN
               /\ exit' = [exit EXCEPT !["parse"] = Raised("ValueError", {})]
               /\ UNCHANGED liqs
           ELSE
               /\ \E events \in {Events(raw.rows, SYMBOL_FILTER)} :
                     liqs' = [liqs EXCEPT ![RuleOf(INTERVAL)] =
                                 Table(LIQ_COLS, Aggregate(events, WidthMs(RuleOf(INTERVAL))))]
               /\ exit' = [exit EXCEPT !["parse"] = Ok]

\* ------------------------------------------------------------------ build_dataset.py
PRICE_COLS == <<"timestamp_utc", "open", "high", "low", "close", "volume">>

Abs(a) == IF a < 0 THEN -a ELSE a
\* greatest common divisor of a >= 0 and b > 0
Gcd(a, b) == MaxOf({d \in 1..b : a % d = 0 /\ b % d = 0})

\* a float that is the quotient of two integer-valued floats, in lowest terms;
\* RNaN is the float NaN
Ratio(n, d) ==
    LET g == Gcd(Abs(n), Abs(d))
        sg == IF d < 0 THEN -1 ELSE 1
    IN [def |-> TRUE, num |-> sg * (n \div g), den |-> sg * (d \div g)]
RNaN == [def |-> FALSE, num |-> 0, den |-> 1]

\* record r extended (or overwritten) with the fields of record e
With(r, e) ==
    [c \in DOMAIN r \cup DOMAIN e |-> IF c \in DOMAIN e THEN e[c] ELSE r[c]]

\* rows ordered by timestamp_utc and then by position (sort_values)
Before(rows, k, m) ==
    \/ rows[k].timestamp_utc < rows[m].timestamp_utc
    \/ (rows[k].timestamp_utc = rows[m].timestamp_utc /\ k < m)
SortByTime(rows) ==
    [n \in DOMAIN rows |->
        rows[CHOOSE k \in DOMAIN rows :
                Cardinality({m \in DOMAIN rows : Before(rows, m, k)}) = n - 1]]

\* the concatenation of a sequence of sequences
Flatten(ss) ==
    LET acc[k \in 0..Len(ss)] == IF k = 0 THEN <<>> ELSE acc[k - 1] \o ss[k]
    IN acc[Len(ss)]

\* Merge with a tolerance of one millisecond (a nearest-match join)
MergeNearest(left, right) ==
    Flatten([i \in DOMAIN left |->
        LET hits == SelectSeq(right,
                        LAMBDA p : Abs(p.timestamp_utc - left[i].timestamp_utc) <= 1)
        IN [k \in DOMAIN hits |->
               With(left[i], [close |-> hits[k].close, volume |-> hits[k].volume])]])

\* pd.merge(left, right, on="timestamp_utc", how="inner"): for each left row in
\* order, one row per right row with the identical timestamp
Merge(left, right) ==
    Flatten([i \in DOMAIN left |->
        LET hits == SelectSeq(right, LAMBDA p : p.timestamp_utc = left[i].timestamp_utc)
        IN [k \in DOMAIN hits |->
               With(left[i], [close |-> hits[k].close, volume |-> hits[k].volume])]])

\* columns of the merged frame: the left ones, then close and volume
MergedCols(liqCols) == liqCols \o <<"close", "volume">>
DERIVED_COLS == <<"net_liq_usd", "liq_total_usd", "close_prev", "ret", "close_next", "ret_next">>

\* close.shift(d) at row i: the close d rows back, NaN off the table
Shifted(rows, i, d) ==
    IF i - d \in DOMAIN rows THEN Some(rows[i - d].close) ELSE NaN

\* lines 47-54: the derived columns of row i of the joined, time-sorted frame
Derive(rows, i) ==
    LET prev == Shifted(rows, i, 1)
        next == Shifted(rows, i, -1)
    IN With(rows[i],
         [net_liq_usd |-> rows[i].short_liq_usd - rows[i].long_liq_usd,
          liq_total_usd |-> rows[i].short_liq_usd + rows[i].long_liq_usd,
          close_prev |-> prev,
          ret |-> IF prev.def THEN Ratio(rows[i].close - prev.val, prev.val) ELSE RNaN,
          close_next |-> next,
          ret_next |-> IF next.def THEN Ratio(next.val - rows[i].close, rows[i].close)
                       ELSE RNaN])

\* DatasetRows adding its rows to those of the dataset file there is
DatasetRowsAppending(joined) ==
    LET sorted == SortByTime(joined)
        full == [i \in DOMAIN sorted |-> Derive(sorted, i)]
    IN dataset.rows \o SelectSeq(full, LAMBDA r : r.ret.def /\ r.ret_next.def)

\* DatasetRows dropping on ret_next alone: dropna(subset=["ret_next"])
DatasetRowsKeepFirst(joined) ==
    LET sorted == SortByTime(joined)
        full == [i \in DOMAIN sorted |-> Derive(sorted, i)]
    IN SelectSeq(full, LAMBDA r : r.ret_next.def)

\* lines 44-57: sort, derive, dropna(subset=["ret", "ret_next"])
DatasetRows(joined) ==
    LET sorted == SortByTime(joined)
        full == [i \in DOMAIN sorted |-> Derive(sorted, i)]
    IN SelectSeq(full, LAMBDA r : r.ret.def /\ r.ret_next.def)

\* build_dataset.py opening its output for writing before it reads its inputs
BuildFailsTruncating(e) ==
    /\ exit' = [exit EXCEPT !["build"] = e]
    /\ dataset' = Table(<<>>, <<>>)
    /\ UNCHANGED processedDir

BuildFails(e) ==
    /\ exit' = [exit EXCEPT !["build"] = e]
    /\ UNCHANGED <<dataset, processedDir>>

\* main() of build_dataset.py
BuildDataset ==
    /\ UNCHANGED <<INTERVAL, SYMBOL_FILTER, raw, price, liqs, corr_out, events_out>>
    /\ IF RuleOf(INTERVAL) = None THEN BuildFails(Raised("ValueError", {}))
       ELSE LET liq == liqs[RuleOf(INTERVAL)] IN
       IF ~liq.exists \/ ~price.exists THEN BuildFails(Raised("FileNotFoundError", {}))
       \* read_csv(parse_dates=["timestamp_utc"]) names the date column it misses
       ELSE IF ~HasCol(liq, "timestamp_utc") \/ ~HasCol(price, "timestamp_utc")
            THEN BuildFails(Raised("ValueError", {"timestamp_utc"}))
       \* px[["timestamp_utc", "close", "volume"]] names the columns not in the index
       ELSE IF ~HasCol(price, "close") \/ ~HasCol(price, "volume")
            THEN BuildFails(Raised("KeyError",
                                   {c \in {"close", "volume"} : ~HasCol(price, c)}))
       ELSE LET df == Merge(SortByTime(liq.rows), SortByTime(price.rows)) IN
       IF df = <<>> THEN
            /\ processedDir' = TRUE
            /\ dataset' = Table(MergedCols(liq.cols), <<>>)
            /\ exit' = [exit EXCEPT !["build"] = Ok]
       \* df["short_liq_usd"] - df["long_liq_usd"]: the first column missed
       ELSE IF ~HasCol(liq, "short_liq_usd")
            THEN BuildFails(Raised("KeyError", {"short_liq_usd"}))
       ELSE IF ~HasCol(liq, "long_liq_usd")
            THEN BuildFails(Raised("KeyError", {"long_liq_usd"}))
       ELSE
            /\ processedDir' = TRUE
            /\ dataset' = Table(MergedCols(liq.cols) \o DERIVED_COLS, DatasetRows(df))
            /\ exit' = [exit EXCEPT !["build"] = Ok]

\* ------------------------------------------------------------------ float64
\* A positive float64 is [m, e]: m its 53 mantissa bits, the first one 1, and
\* e the exponent of the last bit; its value is m * 2^e.
MantissaBits == 53
Zeros(n) == [k \in 1..n |-> 0]

\* a sequence of bits without its leading zeros (one of the bits is 1)
StripZeros(b) == SubSeq(b, MinOf({k \in DOMAIN b : b[k] = 1}), Len(b))

\* the bits of b + 1
Increment(b) ==
    IF \A k \in DOMAIN b : b[k] = 1 THEN <<1>> \o Zeros(Len(b))
    ELSE LET j == MaxOf({k \in DOMAIN b : b[k] = 0})
         IN [k \in DOMAIN b |-> IF k < j THEN b[k] ELSE IF k = j THEN 1 ELSE 0]

\* the float64 nearest to bits * 2^e (plus a fraction of the last place of
\* bits when sticky), ties to the even mantissa
RoundBits(bits, e, sticky) ==
    LET s == StripZeros(bits)
        L == Len(s)
        P == MantissaBits
    IN IF L <= P THEN [m |-> s \o Zeros(P - L), e |-> e - (P - L)]
       ELSE LET keep == SubSeq(s, 1, P)
                rest == sticky \/ \E k \in (P + 2)..L : s[k] = 1
                up == s[P + 1] = 1 /\ (rest \/ keep[P] = 1)
                r == IF up THEN Increment(keep) ELSE keep
            IN IF Len(r) > P THEN [m |-> SubSeq(r, 1, P), e |-> e + (L - P) + 1]
               ELSE [m |-> r, e |-> e + (L - P)]

\* the value of the eight bits of b from place i on
Val8(b, i) ==
    128 * b[i] + 64 * b[i + 1] + 32 * b[i + 2] + 16 * b[i + 3] + 8 * b[i + 4]
      + 4 * b[i + 5] + 2 * b[i + 6] + b[i + 7]
\* bit p (1 the first) of the eight bits of v
Bit8(v, p) == (v \div (2 ^ (8 - p))) % 2
\* the bits of the bytes at[1], at[2] and so on
BitsOfBytes(at) ==
    [k \in 1..(8 * Len(at)) |-> Bit8(at[((k - 1) \div 8) + 1], ((k - 1) % 8) + 1)]

\* the float64 nearest to a / b, for integers 0 < a < 2^24 * b and
\* 0 < b < 2^23: 24 bits of the whole part and 64 of the fraction, found
\* eight at a time
FloatOfRatio(a, b) ==
    LET whole == [k \in 1..24 |-> ((a \div b) \div (2 ^ (24 - k))) % 2]
        rem[j \in 0..8] == IF j = 0 THEN a % b ELSE (256 * rem[j - 1]) % b
        frac == BitsOfBytes([j \in 1..8 |-> (256 * rem[j - 1]) \div b])
    IN RoundBits(whole \o frac, -64, rem[8] # 0)

\* x + y rounded, for positive float64 x and y; the bits are added eight at
\* a time from the last place
FloatAdd(x, y) ==
    LET e == IF x.e < y.e THEN x.e ELSE y.e
        xb == x.m \o Zeros(x.e - e)
        yb == y.m \o Zeros(y.e - e)
        nb == ((IF Len(xb) > Len(yb) THEN Len(xb) ELSE Len(yb)) \div 8) + 1
        a == Zeros(8 * nb - Len(xb)) \o xb
        b == Zeros(8 * nb - Len(yb)) \o yb
        sum[j \in 1..nb] ==
            Val8(a, 8 * j - 7) + Val8(b, 8 * j - 7)
              + (IF j = nb THEN 0 ELSE sum[j + 1] \div 256)
    IN RoundBits(BitsOfBytes([j \in 1..nb |-> sum[j] % 256]), e, FALSE)

\* x / n rounded, for a positive float64 x and an integer 0 < n < 128; the
\* 53 bits of x and 11 more below them are divided eight at a time
FloatDivInt(x, n) ==
    LET bits == x.m \o Zeros(11)
        rem[j \in 0..8] ==
            IF j = 0 THEN 0 ELSE (256 * rem[j - 1] + Val8(bits, 8 * j - 7)) % n
    IN RoundBits(BitsOfBytes([j \in 1..8 |->
                                (256 * rem[j - 1] + Val8(bits, 8 * j - 7)) \div n]),
                 x.e - 11, rem[8] # 0)

\* numpy's mean of n copies of x: the copies added one by one, the sum
\* divided by n
FloatMeanOfCopies(x, n) ==
    LET sum[k \in 1..n] == IF k = 1 THEN x ELSE FloatAdd(sum[k - 1], x)
    IN FloatDivInt(sum[n], n)

\* the mean of n copies of the float64 nearest to a / b (a >= 0, b > 0) is
\* that float64 itself
MeanIsExact(a, b, n) ==
    a = 0 \/ \E x \in {FloatOfRatio(a, b)} : FloatMeanOfCopies(x, n) = x

\* ------------------------------------------------------------------ analyze_correlation.py
NEEDED ==
    {"close", "ret_next", "long_liq_usd", "short_liq_usd", "net_liq_usd",
     "liq_total_usd", "long_count", "short_count"}
\* the six predictors in the order sort_values("predictor") leaves them in
PREDICTORS ==
    <<"liq_total_usd", "long_count", "long_liq_usd", "net_liq_usd", "short_count",
      "short_liq_usd">>
CORR_COLS == <<"predictor", "pearson", "spearman", "n">>
EVENT_COLS == <<"label", "horizon_k", "n_events", "mean", "median", "hit_rate_pos">>

\* the hourly horizons whatever the interval
HorizonsHourly(interval) == <<1, 3, 6, 12, 24>>

\* horizons = [1, 3, 6, 12, 24] if INTERVAL == "1H" else [1, 2, 3, 5, 10]
Horizons(interval) ==
    IF interval = "1H" THEN <<1, 3, 6, 12, 24>> ELSE <<1, 2, 3, 5, 10>>

\* a correlation coefficient is kept as defined or NaN, without its value
Coef(defined) == [def |-> defined]

\* a row of a dataset read from a file may carry the set na of its columns
\* whose cell is empty (nan once read); such a cell holds 0 in the record
IsNA(row, col) == "na" \in DOMAIN row /\ col \in row.na

\* the rows of lines 46-48: column col and ret_next both there
Mask(rows, col) ==
    {i \in DOMAIN rows : ~IsNA(rows[i], col) /\ rows[i].ret_next.def}

\* the dollar columns hold hundredths, the count columns units
UnitsPer(col) ==
    IF col \in {"long_count", "short_count"} THEN 1 ELSE 100

\* np.corrcoef takes the mean off each column; what is left of column col is
\* not all zero: the values differ, or the one value is not the float64 mean
\* of its copies
Spread(rows, col, mask) ==
    \/ \E i, j \in mask : rows[i][col] # rows[j][col]
    \/ \E i \in mask : ~MeanIsExact(Abs(rows[i][col]), UnitsPer(col), Cardinality(mask))
\* the same of ret_next
SpreadOfTarget(rows, mask) ==
    \/ \E i, j \in mask : rows[i].ret_next # rows[j].ret_next
    \/ \E i \in mask :
          ~MeanIsExact(Abs(rows[i].ret_next.num), rows[i].ret_next.den, Cardinality(mask))

\* spearmanr is nan for a column of one value: the ranks are whole or half
\* numbers, their mean is exact
RanksSpread(rows, col, mask) ==
    /\ \E i, j \in mask : rows[i][col] # rows[j][col]
    /\ \E i, j \in mask : rows[i].ret_next # rows[j].ret_next

\* CorrRow counting every row of the dataset in n
CorrRowAllRows(rows, col) ==
    LET mask == Mask(rows, col)
    IN [predictor |-> col,
        pearson |-> Coef(Spread(rows, col, mask) /\ SpreadOfTarget(rows, mask)),
        spearman |-> Coef(RanksSpread(rows, col, mask)),
        n |-> Len(rows)]

\* lines 45-55: one row of the correlation table.  Series.corr(method=
\* "pearson") is np.corrcoef, nan when the covariance and a variance are 0;
\* method="spearman" is scipy's spearmanr
CorrRow(rows, col) ==
    LET mask == Mask(rows, col)
    IN [predictor |-> col,
        pearson |-> Coef(Spread(rows, col, mask) /\ SpreadOfTarget(rows, mask)),
        spearman |-> Coef(RanksSpread(rows, col, mask)),
        n |-> Cardinality(mask)]

\* x[x > 0] in ascending order
PositiveSorted(rows, col) ==
    LET pos == {i \in DOMAIN rows : ~IsNA(rows[i], col) /\ rows[i][col] > 0}
        Lt(k, m) == rows[k][col] < rows[m][col] \/ (rows[k][col] = rows[m][col] /\ k < m)
    IN [n \in 1..Cardinality(pos) |->
          rows[CHOOSE k \in pos : Cardinality({m \in pos : Lt(m, k)}) = n - 1][col]]

\* q95_nonzero: 20 times the 0.95 quantile (linear interpolation) of the
\* positive values v, a sorted sequence; the threshold is infinite for no value
Quantile95x20(v) ==
    LET h == 19 * (Len(v) - 1)
        lo == (h \div 20) + 1
    IN IF h % 20 = 0 THEN 20 * v[lo]
       ELSE 20 * v[lo] + (h % 20) * (v[lo + 1] - v[lo])

\* SpikeRows with a threshold of 0 for a column without a positive value
SpikeRowsZeroThreshold(rows, col) ==
    {i \in DOMAIN rows :
        \E v \in {PositiveSorted(rows, col)} :
            /\ ~IsNA(rows[i], col)
            /\ 20 * rows[i][col] >= (IF v = <<>> THEN 0 ELSE Quantile95x20(v))}

\* SpikeRows with values above the threshold only
SpikeRowsStrict(rows, col) ==
    {i \in DOMAIN rows :
        \E v \in {PositiveSorted(rows, col)} :
            v # <<>> /\ ~IsNA(rows[i], col) /\ 20 * rows[i][col] > Quantile95x20(v)}

\* lines 74-75: the positions of the rows flagged as a spike of column col
SpikeRows(rows, col) ==
    {i \in DOMAIN rows :
        \E v \in {PositiveSorted(rows, col)} :
            v # <<>> /\ ~IsNA(rows[i], col) /\ 20 * rows[i][col] >= Quantile95x20(v)}

\* forward_return(close, k) at position p
ForwardReturn(rows, p, k) ==
    IF p + k \in DOMAIN rows /\ ~IsNA(rows[p], "close") /\ ~IsNA(rows[p + k], "close")
    THEN Ratio(rows[p + k].close - rows[p].close, rows[p].close)
    ELSE RNaN

RLess(a, b) == a.num * b.den < b.num * a.den
RAdd(a, b) == Ratio(a.num * b.den + b.num * a.den, a.den * b.den)

\* mean, median and share of positive values of a non-empty sequence of floats
Mean(vals) ==
    LET acc[k \in 0..Len(vals)] == IF k = 0 THEN Ratio(0, 1) ELSE RAdd(acc[k - 1], vals[k])
    IN Ratio(acc[Len(vals)].num, acc[Len(vals)].den * Len(vals))
Median(vals) ==
    LET n == Len(vals)
        Lt(k, m) == RLess(vals[k], vals[m]) \/ (vals[k] = vals[m] /\ k < m)
        at(r) == vals[CHOOSE k \in 1..n : Cardinality({m \in 1..n : Lt(m, k)}) = r - 1]
    IN IF n % 2 = 1 THEN at((n + 1) \div 2)
       ELSE \* the mean of the two middle values
            Ratio(at(n \div 2).num * at(n \div 2 + 1).den + at(n \div 2 + 1).num * at(n \div 2).den,
                  2 * at(n \div 2).den * at(n \div 2 + 1).den)
HitRate(vals) ==
    Ratio(Cardinality({k \in DOMAIN vals : vals[k].num > 0}), Len(vals))

\* summarize_events: one row of the event-study table, for the events at the
\* positions idx and horizon k
EventRow(rows, idx, label, k) ==
    LET hit == {p \in idx : ForwardReturn(rows, p, k).def}
        at == SortedSeq(hit)
    IN \* fwd.loc[idx].dropna()
       CHOOSE row \in
         {IF vals = <<>>
          THEN [label |-> label, horizon_k |-> k, n_events |-> 0,
                mean |-> RNaN, median |-> RNaN, hit_rate_pos |-> RNaN]
          ELSE [label |-> label, horizon_k |-> k, n_events |-> Len(vals),
                mean |-> Mean(vals), median |-> Median(vals),
                hit_rate_pos |-> HitRate(vals)] :
            vals \in {[n \in DOMAIN at |-> ForwardReturn(rows, at[n], k)]}} : TRUE

\* lines 94-98: the rows of LONG_SPIKE, then those of SHORT_SPIKE, by horizon
EventRows(rows, interval) ==
    LET hs == Horizons(interval)
        long == SpikeRows(rows, "long_liq_usd")
        short == SpikeRows(rows, "short_liq_usd")
    IN [n \in 1..(2 * Len(hs)) |->
          IF n <= Len(hs) THEN EventRow(rows, long, "LONG_SPIKE", hs[n])
          ELSE EventRow(rows, short, "SHORT_SPIKE", hs[n - Len(hs)])]

AnalyzeFails(e) ==
    /\ exit' = [exit EXCEPT !["analyze"] = e]
    /\ UNCHANGED <<corr_out, events_out>>

\* main() of analyze_correlation.py
AnalyzeCorrelation ==
    /\ UNCHANGED <<INTERVAL, SYMBOL_FILTER, raw, price, liqs, dataset>>
    /\ IF ~dataset.exists THEN
           /\ AnalyzeFails(Raised("FileNotFoundError", {}))
           /\ UNCHANGED processedDir
       ELSE
           /\ processedDir' = TRUE
           \* read_csv(parse_dates=["timestamp_utc"]) names the date column it misses
           /\ IF ~HasCol(dataset, "timestamp_utc")
              THEN AnalyzeFails(Raised("ValueError", {"timestamp_utc"}))
              ELSE IF NEEDED \ Range(dataset.cols) # {}
              THEN AnalyzeFails(Raised("ValueError", NEEDED \ Range(dataset.cols)))
              ELSE \E df \in {SortByTime(dataset.rows)} :
                     /\ corr_out' = Table(CORR_COLS,
                                          [n \in DOMAIN PREDICTORS |-> CorrRow(df, PREDICTORS[n])])
                     /\ events_out' = Table(EVENT_COLS, EventRows(df, INTERVAL))
                     /\ exit' = [exit EXCEPT !["analyze"] = Ok]

\* ------------------------------------------------------------------ inputs
\* bounds of the model
MaxMsgs == 2
NumTimes == 4

\* instants of messages: 22:05, 22:40 and 23:00 of one day, then the same 27
\* hours later, and so on: two instants in one hour, one on an hour's boundary,
\* and gaps of whole hours and of a whole day between events
TimeAt(i) ==
    22 * HourMs + <<HourMs \div 12, 2 * (HourMs \div 3), HourMs>>[(i % 3) + 1]
       + (i \div 3) * 27 * HourMs
MsgTimes == {TimeAt(i) : i \in 0..(NumTimes - 1)}

SeqsUpTo(S, n) == UNION {[1..k -> S] : k \in 0..n}

\* the rows of a raw-message file: message_id is the row number
RawRows ==
    {[i \in DOMAIN r |-> [message_id |-> i, timestamp_utc |-> r[i][1], text |-> r[i][2]]] :
        r \in SeqsUpTo(({Some(t) : t \in MsgTimes} \cup {NaT}) \X Texts, MaxMsgs)}

\* a table cut down to the columns cols
Project(rows, cols) ==
    [i \in DOMAIN rows |-> [c \in Range(cols) |-> rows[i][c]]]

\* raw files lacking a required column
RawBadSchema ==
    {Table(cols, Project(rows, cols)) :
        cols \in {<<"message_id">>, <<"message_id", "timestamp_utc">>, <<"message_id", "text">>},
        rows \in {r \in RawRows : Len(r) <= 1 /\ \A i \in DOMAIN r : r[i].text = TxtLongBTC}}

RawFiles == {NoFile} \cup RawBadSchema \cup {Table(RAW_COLS, r) : r \in RawRows}

\* binance_fetch_price.py not started, with no exchange to ask
NoFetch ==
    /\ exchange = {}
    /\ fetch_pc = "idle"
    /\ start_ms = 0
    /\ end_ms = 0
    /\ attempt = 0
    /\ page = <<>>
    /\ all_chunks = <<>>
    /\ asked = <<>>
    /\ returned = NoFile

\* run_analysis.py not started
NoStatus == [def |-> FALSE, val |-> 0]
NoRun ==
    /\ step = 1
    /\ started = <<>>
    /\ status = NoStatus

NoOutputs ==
    /\ liqs = [n \in IntervalNames |-> NoFile]
    /\ dataset = NoFile
    /\ corr_out = NoFile
    /\ events_out = NoFile
    /\ exit = [s \in Scripts |-> NotRun]

\* parse_aggregate.py run on any raw-message file, nothing written yet
InitAgg ==
    /\ INTERVAL \in IntervalNames
    /\ SYMBOL_FILTER \in Filters
    /\ raw \in RawFiles
    /\ price = NoFile
    /\ processedDir = FALSE
    /\ NoOutputs
    /\ NoFetch
    /\ NoRun

NextAgg == ParseAggregate /\ UNCHANGED <<fetchVars, runVars>>
SpecAgg == InitAgg /\ [][NextAgg]_vars

\* parse_aggregate.py run on raw files of one or two messages, the texts drawn
\* from ParseTexts, the filter from ParseFilters
ParseRawRows ==
    {[i \in DOMAIN r |-> [message_id |-> i, timestamp_utc |-> Some(TimeAt(i - 1)),
                          text |-> r[i]]] :
        r \in SeqsUpTo(ParseTexts, 2) \ {<<>>}}

InitParse ==
    /\ INTERVAL \in {"1H", "1D"}
    /\ SYMBOL_FILTER \in ParseFilters
    /\ raw \in {Table(RAW_COLS, r) : r \in ParseRawRows}
    /\ price = NoFile
    /\ processedDir = FALSE
    /\ NoOutputs
    /\ NoFetch
    /\ NoRun

SpecParse == InitParse /\ [][NextAgg]_vars

\* build_dataset.py run on a bucket file and a price file
NumStamps == 4

StampAt(k) == k * HourMs
\* a bucket row and a price bar per stamp, the values fixed by the stamp; the
\* closes of the first three bars are 100, 110, 99
LiqRowAt(k) ==
    [timestamp_utc |-> StampAt(k), long_liq_usd |-> 7 * (k % 3),
     short_liq_usd |-> 4 * ((k + 1) % 2), long_count |-> k % 3,
     short_count |-> (k + 1) % 2]
CloseAt(k) == <<100, 110, 99>>[((k - 1) % 3) + 1] + 7 * ((k - 1) \div 3)
BarAt(t, c) ==
    [timestamp_utc |-> t, open |-> c, high |-> c, low |-> c, close |-> c, volume |-> 3]
\* bars stamped one millisecond before the stamps 1 and 2
NearBars == {BarAt(StampAt(k) - 1, CloseAt(k) + 1) : k \in 1..2}
ExactBars == {BarAt(StampAt(k), CloseAt(k)) : k \in 1..NumStamps}

\* the rows of set S in ascending time, and in descending time
Ascending(S) ==
    LET ts == SortedSeq({r.timestamp_utc : r \in S})
    IN [n \in DOMAIN ts |-> CHOOSE r \in S : r.timestamp_utc = ts[n]]
Reverse(q) == [n \in DOMAIN q |-> q[Len(q) + 1 - n]]

BuildLiqFiles ==
    {NoFile} \cup
    UNION {{Table(LIQ_COLS, Ascending(S)), Table(LIQ_COLS, Reverse(Ascending(S)))} :
              S \in SUBSET {LiqRowAt(k) : k \in 1..NumStamps}}
BuildPriceFiles ==
    {NoFile} \cup {Table(PRICE_COLS, Ascending(S)) : S \in SUBSET (ExactBars \cup NearBars)}

InitBuild ==
    /\ INTERVAL \in IntervalNames
    /\ SYMBOL_FILTER = F_BTC
    /\ raw = NoFile
    /\ price \in BuildPriceFiles
    /\ liqs \in {[n \in IntervalNames |-> IF n = m THEN f ELSE NoFile] :
                    m \in {"1H", "1D"}, f \in BuildLiqFiles}
    /\ processedDir = \E n \in IntervalNames : liqs[n].exists
    /\ dataset = NoFile
    /\ corr_out = NoFile
    /\ events_out = NoFile
    /\ exit = [s \in Scripts |-> NotRun]
    /\ NoFetch
    /\ NoRun

NextBuild == BuildDataset /\ UNCHANGED <<fetchVars, runVars>>
SpecBuild == InitBuild /\ [][NextBuild]_vars

\* analyze_correlation.py run on a dataset file of up to MaxRows rows
MaxRows == 3

\* the close of row i of such a dataset: 10, 12, 9, 12, 15, 10 and so on
AClose(i) == <<10, 12, 9, 12, 15>>[(i % 5) + 1]

\* what a row holds apart from its place: the liquidations and counts of the
\* two sides, the columns whose cell is empty, and whether ret_next is there
RowKinds ==
    {[long |-> 0, short |-> 0, nl |-> 0, ns |-> 0, na |-> {}, next |-> TRUE],
     [long |-> 5, short |-> 0, nl |-> 1, ns |-> 0, na |-> {}, next |-> TRUE],
     [long |-> 9, short |-> 4, nl |-> 2, ns |-> 1, na |-> {}, next |-> TRUE],
     [long |-> 0, short |-> 4, nl |-> 0, ns |-> 1,
      na |-> {"long_liq_usd", "net_liq_usd", "liq_total_usd"}, next |-> TRUE],
     [long |-> 5, short |-> 4, nl |-> 1, ns |-> 1, na |-> {}, next |-> FALSE],
     [long |-> 9, short |-> 0, nl |-> 1, ns |-> 0, na |-> {"close"}, next |-> FALSE]}

DatasetRowAt(i, kind) ==
    [timestamp_utc |-> StampAt(i),
     long_liq_usd |-> kind.long, short_liq_usd |-> kind.short,
     long_count |-> kind.nl, short_count |-> kind.ns,
     close |-> IF "close" \in kind.na THEN 0 ELSE AClose(i), volume |-> 3,
     net_liq_usd |-> IF "net_liq_usd" \in kind.na THEN 0 ELSE kind.short - kind.long,
     liq_total_usd |-> IF "liq_total_usd" \in kind.na THEN 0 ELSE kind.short + kind.long,
     close_prev |-> Some(AClose(i - 1)),
     ret |-> IF "close" \in kind.na THEN RNaN
             ELSE Ratio(AClose(i) - AClose(i - 1), AClose(i - 1)),
     close_next |-> Some(AClose(i + 1)),
     ret_next |-> IF kind.next THEN Ratio(AClose(i + 1) - AClose(i), AClose(i)) ELSE RNaN,
     na |-> kind.na]

DATASET_COLS == MergedCols(LIQ_COLS) \o DERIVED_COLS

AnalyzeDatasets ==
    {Table(DATASET_COLS, [i \in DOMAIN ks |-> DatasetRowAt(i, ks[i])]) :
        ks \in SeqsUpTo(RowKinds, MaxRows)}

InitAnalyze ==
    /\ INTERVAL \in IntervalNames
    /\ SYMBOL_FILTER = F_BTC
    /\ raw = NoFile
    /\ price = NoFile
    /\ liqs = [n \in IntervalNames |-> NoFile]
    /\ dataset \in AnalyzeDatasets
    /\ processedDir = TRUE
    /\ corr_out = NoFile
    /\ events_out = NoFile
    /\ exit = [s \in Scripts |-> NotRun]
    /\ NoFetch
    /\ NoRun

NextAnalyze == AnalyzeCorrelation /\ UNCHANGED <<fetchVars, runVars>>
SpecAnalyze == InitAnalyze /\ [][NextAnalyze]_vars

\* the three stages run in any order on files that may be missing or may lack
\* columns
Without(file, dropped) ==
    LET keep == {n \in DOMAIN file.cols : file.cols[n] \notin dropped}
        at == SortedSeq(keep)
        cols == [n \in DOMAIN at |-> file.cols[at[n]]]
    IN Table(cols, Project(file.rows, cols))

StageRawFull ==
    {Table(RAW_COLS, rows) :
        rows \in {r \in RawRows : /\ Len(r) <= 1
                                  /\ \A i \in DOMAIN r :
                                       /\ r[i].timestamp_utc = Some(TimeAt(0))
                                       /\ r[i].text \in {TxtLongBTC, TxtShortETH}}}
StageRawFiles ==
    {NoFile} \cup StageRawFull
    \cup {Without(Table(RAW_COLS, <<>>), d) :
             d \in {{"timestamp_utc"}, {"text"}, {"timestamp_utc", "text"}}}

StageLiqGood == Table(LIQ_COLS, Ascending({LiqRowAt(k) : k \in 1..NumStamps}))
\* buckets stamped half an hour off the bars: the join is empty
StageLiqOff ==
    Table(LIQ_COLS,
          [k \in 1..2 |-> With(LiqRowAt(k), [timestamp_utc |-> StampAt(k) + HourMs \div 2])])
StageLiqFiles ==
    {NoFile, StageLiqGood, StageLiqOff, Table(LIQ_COLS, <<>>)}
    \cup {Without(StageLiqGood, d) :
             d \in {{"timestamp_utc"}, {"short_liq_usd"}, {"long_count"},
                    {"long_liq_usd", "short_liq_usd"}}}
    \cup {Without(StageLiqOff, {"short_liq_usd"})}

StagePriceGood == Table(PRICE_COLS, Ascending(ExactBars))
StagePriceFiles ==
    {NoFile, StagePriceGood}
    \cup {Without(StagePriceGood, d) :
             d \in {{"timestamp_utc"}, {"close"}, {"close", "volume"}}}

StageDatasetGood ==
    Table(MergedCols(LIQ_COLS) \o DERIVED_COLS,
          DatasetRows(SortByTime(Merge(StageLiqGood.rows, StagePriceGood.rows))))
StageDatasetFiles ==
    {NoFile, StageDatasetGood}
    \cup {Without(StageDatasetGood, d) :
             d \in {{"timestamp_utc"}, {"ret_next"}, {"net_liq_usd", "long_count"}}}

InitStages ==
    /\ INTERVAL \in IntervalNames
    /\ SYMBOL_FILTER = F_BTC
    /\ raw \in StageRawFiles
    /\ price \in StagePriceFiles
    /\ liqs \in {[n \in IntervalNames |-> IF n \in {"1H", "1D"} THEN f ELSE NoFile] :
                    f \in StageLiqFiles}
    /\ dataset \in StageDatasetFiles
    /\ processedDir = (dataset.exists \/ \E n \in IntervalNames : liqs[n].exists)
    /\ corr_out = NoFile
    /\ events_out = NoFile
    /\ exit = [s \in Scripts |-> NotRun]
    /\ NoFetch
    /\ NoRun

NextStages == NextAgg \/ NextBuild \/ NextAnalyze

SpecStages == InitStages /\ [][NextStages]_vars

\* ------------------------------------------------------------------ binance_fetch_price.py
\* a kline of an answer: rows[i][6] is its close time; open, high, low and
\* close are all c here
Kline(t, c) ==
    [close_time |-> t, open |-> c, high |-> c, low |-> c, close |-> c, volume |-> 3]

\* the frame of a page: timestamp_utc = to_datetime(close_time, unit="ms"),
\* then open, high, low, close, volume
Chunk(pg) ==
    [i \in DOMAIN pg |->
        [timestamp_utc |-> pg[i].close_time, open |-> pg[i].open, high |-> pg[i].high,
         low |-> pg[i].low, close |-> pg[i].close, volume |-> pg[i].volume]]

\* drop_duplicates keeping the last row of each timestamp
DropDuplicatesKeepLast(frame) ==
    LET keep == {i \in DOMAIN frame :
                    \A j \in (i + 1)..Len(frame) :
                        frame[j].timestamp_utc # frame[i].timestamp_utc}
        at == SortedSeq(keep)
    IN [n \in DOMAIN at |-> frame[at[n]]]

\* drop_duplicates(subset=["timestamp_utc"]): the first row of each timestamp,
\* in the order of the frame
DropDuplicates(frame) ==
    LET keep == {i \in DOMAIN frame :
                    \A j \in 1..(i - 1) :
                        frame[j].timestamp_utc # frame[i].timestamp_utc}
        at == SortedSeq(keep)
    IN [n \in DOMAIN at |-> frame[at[n]]]

\* the frame returned: none of the columns' rows without a chunk, else the
\* chunks concatenated, without duplicates, sorted by timestamp_utc
Out(chunks) ==
    IF chunks = <<>> THEN <<>> ELSE SortByTime(DropDuplicates(Flatten(chunks)))

\* start_ms = int(rows[-1][6]), the cursor left on the last close time
NextCursorOnLast(pg) == pg[Len(pg)].close_time

\* start_ms = int(rows[-1][6]) + 1
NextCursor(pg) == pg[Len(pg)].close_time + 1

\* if attempt == 1: raise
LastAttemptSecond(a) == a = 1

\* if attempt == 2: raise
LastAttempt(a) == a = 2

\* what the exchange may answer: no kline, or one or two of its klines in
\* any order
Pages(klines) ==
    {<<>>} \cup {<<a>> : a \in klines} \cup {<<a, b>> : a \in klines, b \in klines}

\* the pages the model follows a fetch for: one more than the exchange has
\* close times
MaxPages == Cardinality({k.close_time : k \in exchange}) + 1

\* fetch_binance_klines returns: main() writes the frame to btc_price.csv
Return(chunks) ==
    /\ returned' = Table(PRICE_COLS, Out(chunks))
    /\ price' = Table(PRICE_COLS, Out(chunks))
    /\ fetch_pc' = "returned"
    /\ exit' = [exit EXCEPT !["price"] = Ok]

\* an exception leaves fetch_binance_klines and main()
FetchFails(e) ==
    /\ fetch_pc' = "raised"
    /\ exit' = [exit EXCEPT !["price"] = e]
    /\ UNCHANGED <<returned, price>>

\* main() up to the first test of the while loop
FetchStart ==
    /\ fetch_pc = "idle"
    /\ UNCHANGED <<INTERVAL, SYMBOL_FILTER, raw, liqs, dataset, corr_out, events_out,
                   processedDir>>
    /\ UNCHANGED <<exchange, start_ms, end_ms, attempt, page, all_chunks, asked>>
    \* _interval_binance raises ValueError
    /\ IF RuleOf(INTERVAL) = None
       THEN FetchFails(Raised("ValueError", {}))
       ELSE IF start_ms < end_ms
            THEN fetch_pc' = "request" /\ UNCHANGED <<returned, price, exit>>
            ELSE Return(all_chunks)

\* an attempt that raises requests.RequestException
RequestFails ==
    /\ fetch_pc = "request"
    /\ Len(all_chunks) < MaxPages
    /\ UNCHANGED <<INTERVAL, SYMBOL_FILTER, raw, liqs, dataset, corr_out, events_out,
                   processedDir>>
    /\ UNCHANGED <<exchange, start_ms, end_ms, page, all_chunks, asked>>
    /\ IF LastAttempt(attempt)
       THEN FetchFails(Raised("RequestException", {})) /\ UNCHANGED attempt
       ELSE attempt' = attempt + 1 /\ UNCHANGED <<fetch_pc, returned, price, exit>>

\* an attempt that is answered, and the rest of the while loop's body; when
\* the loop ends, the return and main()'s write
RequestAnswers ==
    /\ fetch_pc = "request"
    /\ Len(all_chunks) < MaxPages
    /\ UNCHANGED <<INTERVAL, SYMBOL_FILTER, raw, liqs, dataset, corr_out, events_out,
                   processedDir>>
    /\ UNCHANGED <<exchange, end_ms>>
    /\ \E pg \in Pages(exchange) :
          /\ page' = pg
          /\ IF pg = <<>>
             THEN /\ Return(all_chunks)
                  /\ UNCHANGED <<start_ms, attempt, all_chunks, asked>>
             ELSE \E chunks \in {Append(all_chunks, Chunk(pg))} :
                  /\ all_chunks' = chunks
                  /\ asked' = Append(asked, start_ms)
                  /\ start_ms' = NextCursor(pg)
                  /\ IF NextCursor(pg) < end_ms
                     THEN /\ fetch_pc' = "request"
                          /\ attempt' = 0
                          /\ UNCHANGED <<returned, price, exit>>
                     ELSE /\ Return(chunks)
                          /\ UNCHANGED attempt

\* bounds of the model
NumBars == 2

\* the close times of the exchange's klines: one millisecond before the hours
\* 1, 2, ...; the first kline is also there with another close (the bar of an
\* hour that had not ended when it was first asked for)
CloseTime(k) == StampAt(k) - 1
Klines ==
    {Kline(CloseTime(k), CloseAt(k)) : k \in 1..NumBars} \cup {Kline(CloseTime(1), CloseAt(1) + 1)}

\* binance_fetch_price.py run for a window that starts at hour 0 or hour 1 and
\* ends at the last hour, or is empty
InitFetch ==
    /\ INTERVAL \in IntervalNames
    /\ SYMBOL_FILTER = F_BTC
    /\ raw = NoFile
    /\ price = NoFile
    /\ processedDir = FALSE
    /\ NoOutputs
    /\ NoRun
    /\ exchange = Klines
    /\ fetch_pc = "idle"
    /\ start_ms \in {StampAt(0), StampAt(1)}
    /\ end_ms \in {StampAt(0), StampAt(NumBars)}
    /\ attempt = 0
    /\ page = <<>>
    /\ all_chunks = <<>>
    /\ asked = <<>>
    /\ returned = NoFile

NextFetch ==
    \/ FetchStart /\ UNCHANGED runVars
    \/ RequestFails /\ UNCHANGED runVars
    \/ RequestAnswers /\ UNCHANGED runVars

SpecFetch == InitFetch /\ [][NextFetch]_vars

\* every request is answered or fails
SpecFetchFair == SpecFetch /\ WF_vars(NextFetch)

\* ------------------------------------------------------------------ fetch_telegram.py
\* main(): an exception (no credentials, a channel that cannot be read, the
\* network) ends the script before it writes
FetchTelegramRaises ==
    /\ exit' = [exit EXCEPT !["telegram"] = Raised("RuntimeError", {})]
    /\ UNCHANGED <<INTERVAL, SYMBOL_FILTER, raw, price, liqs, dataset, corr_out,
                   events_out, processedDir>>

\* main(): the messages kept, in order of time, written to telegram_messages.csv
FetchTelegramSaves(msgs) ==
    /\ raw' = Table(RAW_COLS, msgs)
    /\ exit' = [exit EXCEPT !["telegram"] = Ok]
    /\ UNCHANGED <<INTERVAL, SYMBOL_FILTER, price, liqs, dataset, corr_out, events_out,
                   processedDir>>

\* ------------------------------------------------------------------ run_analysis.py
\* steps, each script by the name exit keeps its outcome under
steps ==
    <<"telegram", "parse", "price", "build", "analyze">>

\* the loop of main() is at script, which run_step is to start or has started
Runs(script) ==
    /\ status = NoStatus
    /\ step \in DOMAIN steps
    /\ steps[step] = script

\* run_step prints the step and starts the script
Starts(script) == started' = Append(started, script)

\* main() going on to the next step whatever run_step returned
AfterStepGoesOn(success) ==
    /\ step' = step + 1
    /\ status' = IF step = Len(steps) THEN Some(0) ELSE status

\* run_step has returned success: main() returns False at once, and the
\* script exits with 1; after the last step main() returns True, exit with 0;
\* else the loop goes to the next step
AfterStep(success) ==
    IF ~success
    THEN status' = Some(1) /\ step' = step
    ELSE /\ step' = step + 1
         /\ status' = IF step = Len(steps) THEN Some(0) ELSE status

\* the messages fetch_telegram.py may save: none; three liquidations of BTC,
\* five minutes into the hours 1, 2 and 3; one whose amount does not parse
RunMessages ==
    {<<>>,
     [i \in 1..3 |-> [message_id |-> i, timestamp_utc |-> Some(StampAt(i) + HourMs \div 12),
                      text |-> IF i = 2 THEN TxtShortBTC ELSE TxtLongBTC]],
     <<[message_id |-> 1, timestamp_utc |-> Some(StampAt(1)), text |-> TxtCommaAmount]>>}

RunFetchTelegram ==
    /\ Runs("telegram")
    /\ Starts("telegram")
    /\ \/ FetchTelegramRaises
       \/ \E msgs \in RunMessages : FetchTelegramSaves(msgs)
    /\ AfterStep(exit'["telegram"] = Ok)
    /\ UNCHANGED fetchVars

RunParseAggregate ==
    /\ Runs("parse")
    /\ Starts("parse")
    /\ ParseAggregate
    /\ AfterStep(exit'["parse"] = Ok)
    /\ UNCHANGED fetchVars

\* binance_fetch_price.py runs request by request; run_step returns when it
\* has ended
RunFetchPrice ==
    /\ Runs("price")
    /\ IF fetch_pc = "idle" THEN FetchStart /\ Starts("price")
       ELSE (RequestFails \/ RequestAnswers) /\ UNCHANGED started
    /\ IF fetch_pc' \in {"returned", "raised"}
       THEN AfterStep(exit'["price"] = Ok)
       ELSE UNCHANGED <<step, status>>

RunBuildDataset ==
    /\ Runs("build")
    /\ Starts("build")
    /\ BuildDataset
    /\ AfterStep(exit'["build"] = Ok)
    /\ UNCHANGED fetchVars

RunAnalyzeCorrelation ==
    /\ Runs("analyze")
    /\ Starts("analyze")
    /\ AnalyzeCorrelation
    /\ AfterStep(exit'["analyze"] = Ok)
    /\ UNCHANGED fetchVars

\* the klines of the exchange in a run of the pipeline: three, closing on the
\* hours 1, 2 and 3
RunKlines == {Kline(StampAt(k), CloseAt(k)) : k \in 1..3}

\* run_analysis.py started where no file is, the window of the price fetch
\* from hour 0 to hour 3
InitRun ==
    /\ INTERVAL \in IntervalNames
    /\ SYMBOL_FILTER = F_BTC
    /\ raw = NoFile
    /\ price = NoFile
    /\ processedDir = FALSE
    /\ NoOutputs
    /\ NoRun
    /\ exchange = RunKlines
    /\ fetch_pc = "idle"
    /\ start_ms = StampAt(0)
    /\ end_ms = StampAt(3)
    /\ attempt = 0
    /\ page = <<>>
    /\ all_chunks = <<>>
    /\ asked = <<>>
    /\ returned = NoFile

NextRun ==
    \/ RunFetchTelegram
    \/ RunParseAggregate
    \/ RunFetchPrice
    \/ RunBuildDataset
    \/ RunAnalyzeCorrelation

SpecRun == InitRun /\ [][NextRun]_vars

\* ------------------------------------------------------------------ claims on aggregation
\* the run of parse_aggregate.py wrote the bucket table of a valid width from
\* at least one kept event
Aggregated ==
    /\ exit["parse"] = Ok
    /\ RuleOf(INTERVAL) # None
    /\ KeptRows(raw.rows, SYMBOL_FILTER) # {}

AggRows == liqs[RuleOf(INTERVAL)].rows
AggEvents == Events(raw.rows, SYMBOL_FILTER)
AggWidth == WidthMs(RuleOf(INTERVAL))

\* C1: no row of the bucket table has long_count = 0 and short_count = 0.
C1_NoEmptyBucket ==
    Aggregated =>
        \A i \in DOMAIN AggRows :
            ~(AggRows[i].long_count = 0 /\ AggRows[i].short_count = 0)

\* closing instant of the interval (c - w, c] that holds ts
ClosingInstant(ts, w) == ((ts + w - 1) \div w) * w

CountOf(row, side) == IF side = "long" THEN row.long_count ELSE row.short_count
UsdOf(row, side) == IF side = "long" THEN row.long_liq_usd ELSE row.short_liq_usd

\* C2: every kept event is counted in the row labelled with the closing instant
\* of the interval that holds its timestamp.
C2_ClosingLabel ==
    Aggregated =>
        \A e \in AggEvents :
            \E i \in DOMAIN AggRows :
                /\ AggRows[i].timestamp_utc = ClosingInstant(e.ts, AggWidth)
                /\ CountOf(AggRows[i], e.side) =
                      Cardinality({x \in AggEvents :
                          /\ x.side = e.side
                          /\ ClosingInstant(x.ts, AggWidth) = ClosingInstant(e.ts, AggWidth)})

\* the events of one side in the interval of width w that row r stands for
RowEvents(r, side) ==
    {e \in AggEvents :
        /\ e.side = side
        /\ r.timestamp_utc <= e.ts
        /\ e.ts < r.timestamp_utc + AggWidth}

\* C3: the rows stand for disjoint intervals, every kept event lies in the
\* interval of a row, a row's sums and counts are those of the events of its
\* interval, and the totals over the rows are the totals over the events.
C3_Conservation ==
    Aggregated =>
        /\ \A i, j \in DOMAIN AggRows :
              i < j => AggRows[i].timestamp_utc + AggWidth <= AggRows[j].timestamp_utc
        /\ \A e \in AggEvents : \E i \in DOMAIN AggRows : e \in RowEvents(AggRows[i], e.side)
        /\ \A i \in DOMAIN AggRows : \A side \in {"long", "short"} :
              /\ UsdOf(AggRows[i], side) = SumAmounts(RowEvents(AggRows[i], side))
              /\ CountOf(AggRows[i], side) = Cardinality(RowEvents(AggRows[i], side))
        /\ SumSeq([i \in DOMAIN AggRows |->
                      AggRows[i].long_liq_usd + AggRows[i].short_liq_usd]) = SumAmounts(AggEvents)
        /\ SumSeq([i \in DOMAIN AggRows |->
                      AggRows[i].long_count + AggRows[i].short_count]) = Cardinality(AggEvents)

\* the scenario of the specification: a long of $12,500 and a short of $8,000 in
\* one hour make one row
C3_Witness ==
    /\ Aggregated
    /\ INTERVAL = "1H"
    /\ Len(AggRows) = 1
    /\ AggRows[1].long_liq_usd = 1250000 /\ AggRows[1].short_liq_usd = 800000
    /\ AggRows[1].long_count = 1 /\ AggRows[1].short_count = 1

\* ------------------------------------------------------------------ claims on the dataset
\* build_dataset.py has run, with a valid width and both input files present
BuildInputs == liqs[RuleOf(INTERVAL)]
Built ==
    /\ exit["build"].status # "none"
    /\ RuleOf(INTERVAL) # None
    /\ BuildInputs.exists /\ price.exists

Stamps(rows) == {rows[i].timestamp_utc : i \in DOMAIN rows}

\* C4: the build ends without error, and every dataset row carries the
\* timestamp of a bucket row and of a price bar and the close of that very bar.
C4_ExactJoin ==
    Built =>
        /\ exit["build"] = Ok
        /\ dataset.exists
        /\ \A i \in DOMAIN dataset.rows :
              /\ dataset.rows[i].timestamp_utc \in Stamps(BuildInputs.rows)
              /\ \E k \in DOMAIN price.rows :
                    /\ price.rows[k].timestamp_utc = dataset.rows[i].timestamp_utc
                    /\ price.rows[k].close = dataset.rows[i].close

\* a dataset row was written while some bucket has a bar one millisecond off
\* and no bar of its own timestamp
C4_Witness ==
    /\ Built
    /\ dataset.rows # <<>>
    /\ \E i \in DOMAIN BuildInputs.rows : \E k \in DOMAIN price.rows :
          /\ price.rows[k].timestamp_utc = BuildInputs.rows[i].timestamp_utc - 1
          /\ BuildInputs.rows[i].timestamp_utc \notin Stamps(price.rows)

\* the timestamps of the joined rows in ascending order, and the close at one
JoinedStamps == SortedSeq(Stamps(BuildInputs.rows) \cap Stamps(price.rows))
CloseOf(t) == (CHOOSE b \in Range(price.rows) : b.timestamp_utc = t).close

\* C5: the dataset is the joined rows but the first and the last, in time
\* order, ret of each from the close of the joined row before it and ret_next
\* from the close of the joined row after it, both defined.
C5_Returns ==
    Built =>
        LET J == JoinedStamps IN
        /\ Len(dataset.rows) = (IF Len(J) < 3 THEN 0 ELSE Len(J) - 2)
        /\ \A n \in DOMAIN dataset.rows :
              LET r == dataset.rows[n]
                  c == CloseOf(J[n + 1])
              IN /\ r.timestamp_utc = J[n + 1]
                 /\ r.ret = Ratio(c - CloseOf(J[n]), CloseOf(J[n]))
                 /\ r.ret_next = Ratio(CloseOf(J[n + 2]) - c, c)

\* one dataset row, whose neighbours in the join are not its neighbours in
\* time: the bar between it and the row before has no bucket
C5_Witness ==
    /\ Built
    /\ Len(dataset.rows) = 1
    /\ dataset.rows[1].timestamp_utc = StampAt(3)
    /\ StampAt(2) \in Stamps(price.rows) \ Stamps(BuildInputs.rows)
    /\ dataset.rows[1].ret = Ratio(-1, 100)

\* C6: a join of zero rows writes, without error, an empty table with the
\* columns a non-empty run writes.
C6_EmptyFullSchema ==
    (Built /\ JoinedStamps = <<>>) =>
        /\ exit["build"] = Ok
        /\ dataset.exists /\ dataset.rows = <<>>
        /\ dataset.cols = MergedCols(BuildInputs.cols) \o DERIVED_COLS

\* ------------------------------------------------------------------ claims on the stages' failures
ValidPrice == price.exists /\ {"timestamp_utc", "close", "volume"} \subseteq Range(price.cols)

\* C7: an empty result passes down the pipeline without a failure: the builder
\* run on the empty bucket table that parsing wrote completes and writes an
\* empty dataset, and the analysis run on an empty dataset that the builder
\* wrote from a bucket table with all its columns completes and writes both
\* result tables, every correlation row with
\* n = 0 and undefined coefficients, every event-study row with n_events = 0
\* and undefined statistics.
C7_EmptyPropagates ==
    [][/\ (/\ BuildDataset
           /\ RuleOf(INTERVAL) # None
           /\ exit["parse"] = Ok
           /\ liqs[RuleOf(INTERVAL)] = Table(LIQ_COLS, <<>>)
           /\ ValidPrice)
          => (exit'["build"] = Ok /\ dataset'.exists /\ dataset'.rows = <<>>)
       /\ (/\ AnalyzeCorrelation
           /\ exit["build"] = Ok
           /\ dataset.exists
           /\ dataset.rows = <<>>
           /\ Range(LIQ_COLS) \subseteq Range(dataset.cols))
          => /\ exit'["analyze"] = Ok
             /\ corr_out'.exists /\ events_out'.exists
             /\ \A i \in DOMAIN corr_out'.rows :
                   /\ corr_out'.rows[i].n = 0
                   /\ ~corr_out'.rows[i].pearson.def
                   /\ ~corr_out'.rows[i].spearman.def
             /\ \A i \in DOMAIN events_out'.rows :
                   /\ events_out'.rows[i].n_events = 0
                   /\ ~events_out'.rows[i].mean.def
                   /\ ~events_out'.rows[i].median.def
                   /\ ~events_out'.rows[i].hit_rate_pos.def]_vars

\* C8: with an interval width other than 1H and 1D no stage completes and no
\* stage writes an output file.
C8_InvalidWidthFatal ==
    [][RuleOf(INTERVAL) = None
          => /\ \A s \in Stages : exit'[s].status # "ok"
             /\ UNCHANGED <<liqs, dataset, corr_out, events_out>>]_vars

\* C9: a stage run while an input file of it does not exist (the raw messages
\* for parse_aggregate, the bucket table of the interval or the price table for
\* build_dataset, the dataset for analyze_correlation) ends with an error and
\* leaves every output file of the stage, and the output directory, as it was.
C9_MissingInput ==
    [][/\ (ParseAggregate /\ ~raw.exists)
          => /\ exit'["parse"].status = "error"
             /\ UNCHANGED <<liqs, processedDir>>
       /\ (/\ BuildDataset
           /\ ~price.exists \/ (RuleOf(INTERVAL) # None /\ ~liqs[RuleOf(INTERVAL)].exists))
          => /\ exit'["build"].status = "error"
             /\ UNCHANGED <<dataset, processedDir>>
       /\ (AnalyzeCorrelation /\ ~dataset.exists)
          => /\ exit'["analyze"].status = "error"
             /\ UNCHANGED <<corr_out, events_out, processedDir>>]_vars

\* every stage has run without its input and has raised FileNotFoundError;
\* no file of the pipeline exists
C9_Witness ==
    /\ ~raw.exists /\ ~price.exists /\ ~dataset.exists
    /\ \A n \in IntervalNames : ~liqs[n].exists
    /\ \A s \in Stages : exit[s] = Raised("FileNotFoundError", {})
    /\ ~corr_out.exists /\ ~events_out.exists /\ ~processedDir

\* the columns of required that the file lacks
MissingCols(file, required) == required \ Range(file.cols)
RawRequired == {"timestamp_utc", "text"}
LiqRequired == {"timestamp_utc", "long_liq_usd", "short_liq_usd"}
PriceRequired == {"timestamp_utc", "close", "volume"}
DatasetRequired == NEEDED \cup {"timestamp_utc"}

\* C10: a stage run on an existing input table that lacks required columns
\* ends with an error that names exactly the lacking columns, and writes no
\* output.
C10_SchemaError ==
    [][/\ (ParseAggregate /\ raw.exists /\ MissingCols(raw, RawRequired) # {})
          => /\ exit'["parse"].status = "error"
             /\ exit'["parse"].names = MissingCols(raw, RawRequired)
             /\ UNCHANGED liqs
       /\ (/\ BuildDataset
           /\ RuleOf(INTERVAL) # None
           /\ liqs[RuleOf(INTERVAL)].exists /\ price.exists
           /\ MissingCols(liqs[RuleOf(INTERVAL)], LiqRequired)
                \cup MissingCols(price, PriceRequired) # {})
          => /\ exit'["build"].status = "error"
             /\ exit'["build"].names = MissingCols(liqs[RuleOf(INTERVAL)], LiqRequired)
                                          \cup MissingCols(price, PriceRequired)
             /\ UNCHANGED dataset
       /\ (AnalyzeCorrelation /\ dataset.exists /\ MissingCols(dataset, DatasetRequired) # {})
          => /\ exit'["analyze"].status = "error"
             /\ exit'["analyze"].names = MissingCols(dataset, DatasetRequired)
             /\ UNCHANGED <<corr_out, events_out>>]_vars

\* ------------------------------------------------------------------ claims on parsing
\* the rows of the raw file parse_row was applied to in the run that ended:
\* all of them, or the ones up to the first it raised on
AppliedRows ==
    IF exit["parse"].status = "none" THEN {}
    ELSE {i \in DOMAIN raw.rows :
            \A k \in 1..(i - 1) : ~Parsed(raw.rows[k].text).raised}

\* the text holds the word Liquidated, white space and Long or Short, in any case
HasSidePhrase(t) ==
    /\ t # NaNText
    /\ \E i \in DOMAIN t, j \in DOMAIN t :
          /\ MatchLit(t, i, L_Liquidated, TRUE)
          /\ j > i + Len(L_Liquidated)
          /\ \A k \in (i + Len(L_Liquidated))..(j - 1) : t[k] \in SpaceChars
          /\ MatchLit(t, j, L_Long, TRUE) \/ MatchLit(t, j, L_Short, TRUE)

\* C11: parse_row returns the rejection triple for every text without a
\* Liquidated Long / Liquidated Short phrase, the text of an empty cell
\* included.
C11_RejectsWithoutPhrase ==
    \A i \in AppliedRows :
        ~HasSidePhrase(raw.rows[i].text) => Parsed(raw.rows[i].text) = Rejected

\* C12: on every text parse_row raises nothing and returns the rejection
\* triple or an event whose side is long or short and whose amount is present
\* and not negative.
C12_EventOrRejected ==
    \A i \in AppliedRows :
        raw.rows[i].text # NaNText =>
            \E p \in {Parsed(raw.rows[i].text)} :
                /\ ~p.raised
                /\ \/ p = Rejected
                   \/ /\ p.side \in {"long", "short"}
                      /\ p.amount_usd.def
                      /\ p.amount_usd.val >= 0

\* the text holds the filter, letter for letter, in any case
HasSubstring(t, f) ==
    t # NaNText /\ \E i \in DOMAIN t : MatchLit(t, i, f, TRUE)

\* the rows the claim keeps: parsed to an event, the filter empty or in the text
ClaimKept ==
    {i \in DOMAIN raw.rows :
        /\ Parsed(raw.rows[i].text).side # None
        /\ SYMBOL_FILTER = <<>> \/ HasSubstring(raw.rows[i].text, SYMBOL_FILTER)}

\* C13: the events aggregated by a run that completes are those of the
\* messages that parse to an event and whose text holds the symbol filter as
\* a substring in any case (all parsed events with an empty filter): the
\* bucket table counts one event for each of them.
C13_KeptByFilter ==
    exit["parse"] = Ok =>
        \E out \in {liqs[INTERVAL].rows} :
            SumSeq([k \in DOMAIN out |-> out[k].long_count + out[k].short_count])
               = Cardinality(ClaimKept)

\* ------------------------------------------------------------------ claims on the analysis
Analyzed == exit["analyze"] = Ok

SixPredictors ==
    {"long_liq_usd", "short_liq_usd", "net_liq_usd", "liq_total_usd", "long_count",
     "short_count"}

\* the rows of the dataset where column col and ret_next are both there
BothDefined(col) ==
    {k \in DOMAIN dataset.rows :
        ~IsNA(dataset.rows[k], col) /\ dataset.rows[k].ret_next.def}

\* C14: the correlation table has one row for each of the six predictors, n
\* is the number of dataset rows where the predictor and ret_next are both
\* defined, and a row with n = 0 has both coefficients undefined.
C14_CorrelationRows ==
    Analyzed =>
        /\ Len(corr_out.rows) = 6
        /\ \A p \in SixPredictors :
              Cardinality({i \in DOMAIN corr_out.rows : corr_out.rows[i].predictor = p}) = 1
        /\ \A i \in DOMAIN corr_out.rows :
              /\ corr_out.rows[i].n = Cardinality(BothDefined(corr_out.rows[i].predictor))
              /\ corr_out.rows[i].n = 0 =>
                    ~corr_out.rows[i].pearson.def /\ ~corr_out.rows[i].spearman.def

\* a dataset with rows, analysed: a predictor without any usable row beside
\* one with usable rows, and rows left out of n
C14_Witness ==
    /\ Analyzed
    /\ \E i, j \in DOMAIN corr_out.rows :
          /\ corr_out.rows[i].n = 0
          /\ corr_out.rows[j].n > 0
          /\ corr_out.rows[j].n < Len(dataset.rows)

\* column col holds the same cell in every row of the dataset
ConstantColumn(col) ==
    \A j, k \in DOMAIN dataset.rows :
        /\ IsNA(dataset.rows[j], col) = IsNA(dataset.rows[k], col)
        /\ dataset.rows[j][col] = dataset.rows[k][col]

\* C15: the analysis of a dataset with rows completes, and for a predictor
\* with the same value in every row both coefficients are undefined.
C15_ConstantPredictor ==
    (exit["analyze"].status # "none" /\ dataset.rows # <<>>) =>
        /\ Analyzed
        /\ \A i \in DOMAIN corr_out.rows :
              ConstantColumn(corr_out.rows[i].predictor) =>
                 ~corr_out.rows[i].pearson.def /\ ~corr_out.rows[i].spearman.def

\* the liquidation column of an event class
ColumnOf(label) == IF label = "LONG_SPIKE" THEN "long_liq_usd" ELSE "short_liq_usd"
Labels == {"LONG_SPIKE", "SHORT_SPIKE"}

\* the rows of the dataset with a positive value in column col
PositiveRows(col) ==
    {k \in DOMAIN dataset.rows : ~IsNA(dataset.rows[k], col) /\ dataset.rows[k][col] > 0}

\* the rows of the event-study table of a class
EventRowsOf(label) ==
    {i \in DOMAIN events_out.rows : events_out.rows[i].label = label}

\* C16: for a side without a positive liquidation value, in a dataset with
\* rows or without, the event-study table has five rows of the class, each
\* with n_events = 0 and mean, median and hit rate undefined.
C16_NoPositiveNoEvents ==
    Analyzed =>
        \A label \in Labels :
            PositiveRows(ColumnOf(label)) = {} =>
                /\ Cardinality(EventRowsOf(label)) = 5
                /\ \A i \in EventRowsOf(label) :
                      /\ events_out.rows[i].n_events = 0
                      /\ ~events_out.rows[i].mean.def
                      /\ ~events_out.rows[i].median.def
                      /\ ~events_out.rows[i].hit_rate_pos.def

\* a dataset with rows, none of them with a positive long liquidation (one
\* empty, one zero), while short events are counted
C16_Witness ==
    /\ Analyzed
    /\ PositiveRows("long_liq_usd") = {}
    /\ \E j, k \in DOMAIN dataset.rows :
          /\ IsNA(dataset.rows[j], "long_liq_usd")
          /\ ~IsNA(dataset.rows[k], "long_liq_usd")
    /\ \E i \in EventRowsOf("SHORT_SPIKE") : events_out.rows[i].n_events > 0

\* the rows flagged as events of a class in the analysis of the dataset
Fired(label) == SpikeRows(SortByTime(dataset.rows), ColumnOf(label))

\* C17: for a side with a positive value, every row holding the largest
\* value of the side is a spike event, and no row with a zero or empty cell
\* is one.
C17_MaxIsSpike ==
    Analyzed =>
        \A label \in Labels :
            \A k \in PositiveRows(ColumnOf(label)) :
                /\ (\A j \in PositiveRows(ColumnOf(label)) :
                       dataset.rows[j][ColumnOf(label)] <= dataset.rows[k][ColumnOf(label)])
                      => k \in Fired(label)
                /\ Fired(label) \subseteq PositiveRows(ColumnOf(label))

\* long liquidations 0, 5 and 9 in one dataset: the row with 9 is the one
\* spike, the row with 5 is below the threshold, and the event is counted
C17_Witness ==
    /\ Analyzed
    /\ Cardinality(Fired("LONG_SPIKE")) = 1
    /\ Cardinality(PositiveRows("long_liq_usd")) = 2
    /\ Len(dataset.rows) = 3
    /\ \E i \in EventRowsOf("LONG_SPIKE") : events_out.rows[i].n_events = 1

\* the forward returns over k rows at the rows of set at, in row order
ForwardAt(at, k) ==
    [n \in 1..Cardinality(at) |-> ForwardReturn(SortByTime(dataset.rows), SortedSeq(at)[n], k)]

\* C18: the event count of a row of the event-study table is the number of
\* dataset rows at which the event of its class fired, and mean, median and
\* hit rate are those of the forward returns over horizon_k rows at all of
\* these rows.
C18_EventCounts ==
    Analyzed =>
        \A i \in DOMAIN events_out.rows :
            \E row \in {events_out.rows[i]} :
                /\ row.n_events = Cardinality(Fired(row.label))
                /\ row.n_events > 0 =>
                      \E vals \in {ForwardAt(Fired(row.label), row.horizon_k)} :
                          /\ \A n \in DOMAIN vals : vals[n].def
                          /\ row.mean = Mean(vals)
                          /\ row.median = Median(vals)
                          /\ row.hit_rate_pos = HitRate(vals)

\* C19: the event-study table has one row for each pair of an event class
\* and a horizon, the horizons being 1, 3, 6, 12, 24 with the interval 1H and
\* 1, 2, 3, 5, 10 with 1D, and never any other set; the rows are ordered by
\* label, then horizon.
C19_EventTableShape ==
    Analyzed =>
        \E hs \in {{events_out.rows[i].horizon_k : i \in DOMAIN events_out.rows}} :
            /\ Len(events_out.rows) = 10
            /\ hs \in {{1, 3, 6, 12, 24}, {1, 2, 3, 5, 10}}
            /\ INTERVAL = "1H" => hs = {1, 3, 6, 12, 24}
            /\ INTERVAL = "1D" => hs = {1, 2, 3, 5, 10}
            /\ \A label \in Labels, h \in hs :
                  Cardinality({i \in EventRowsOf(label) :
                                  events_out.rows[i].horizon_k = h}) = 1
            /\ \A i, j \in DOMAIN events_out.rows :
                  i < j =>
                     \/ /\ events_out.rows[i].label = "LONG_SPIKE"
                        /\ events_out.rows[j].label = "SHORT_SPIKE"
                     \/ /\ events_out.rows[i].label = events_out.rows[j].label
                        /\ events_out.rows[i].horizon_k < events_out.rows[j].horizon_k

\* a daily analysis that counts an event at horizon 2
C19_Witness ==
    /\ Analyzed
    /\ INTERVAL = "1D"
    /\ \E i \in DOMAIN events_out.rows :
          events_out.rows[i].horizon_k = 2 /\ events_out.rows[i].n_events > 0

Fetched == Flatten(all_chunks)

\* C21: the table fetch_binance_klines returns has no two bars with one
\* timestamp and is in ascending order of timestamp; it has a bar for every
\* timestamp fetched, and the bar it has for a timestamp is the first bar
\* fetched with that timestamp.
C21_PriceTable ==
    fetch_pc = "returned" =>
        \E bars \in {returned.rows} :
            /\ \A i \in DOMAIN bars : \A j \in DOMAIN bars :
                  i < j => bars[i].timestamp_utc < bars[j].timestamp_utc
            /\ {bars[i].timestamp_utc : i \in DOMAIN bars}
                  = {Fetched[n].timestamp_utc : n \in DOMAIN Fetched}
            /\ \A i \in DOMAIN bars :
                  \E n \in DOMAIN Fetched :
                      /\ bars[i] = Fetched[n]
                      /\ \A m \in 1..(n - 1) :
                            Fetched[m].timestamp_utc # bars[i].timestamp_utc

\* a table of two bars is returned after two pages that hold the first close
\* time with two different closes, the later page holding it after a later bar
C21_Witness ==
    /\ fetch_pc = "returned"
    /\ Len(returned.rows) = 2
    /\ Len(all_chunks) = 2
    /\ \E i \in DOMAIN all_chunks[1], j \in DOMAIN all_chunks[2] :
          /\ all_chunks[1][i].timestamp_utc = all_chunks[2][j].timestamp_utc
          /\ all_chunks[1][i].close # all_chunks[2][j].close
    /\ Len(all_chunks[2]) = 2
    /\ all_chunks[2][1].timestamp_utc > all_chunks[2][2].timestamp_utc

\* C24: a page is asked for three times at most (attempt is 0, 1 or 2); a
\* request that fails on the first or the second attempt is followed by another
\* attempt with the same cursor and the same pages; an answer on any attempt
\* is taken, a page that is not empty being added to the pages; a request that
\* fails on the third attempt ends the fetch with the error, no table
\* returned and none written.
C24_ThreeAttempts ==
    /\ [](attempt \in 0..2)
    /\ [][RequestFails /\ attempt < 2
            => /\ attempt' = attempt + 1
               /\ fetch_pc' = "request"
               /\ UNCHANGED <<start_ms, end_ms, all_chunks, asked, returned, price>>]_vars
    /\ [][RequestFails /\ attempt = 2
            => /\ fetch_pc' = "raised"
               /\ returned' = NoFile
               /\ price' = price]_vars
    /\ [][RequestAnswers
            => /\ fetch_pc' \in {"request", "returned"}
               /\ page' # <<>> => all_chunks' = Append(all_chunks, Chunk(page'))
               /\ page' = <<>> => all_chunks' = all_chunks /\ returned'.exists]_vars
    /\ [](fetch_pc = "raised" => ~returned.exists /\ ~price.exists)

\* the third attempt of the second page has failed: the fetch has ended with
\* the error, the first page fetched and no table returned
C24_Witness ==
    /\ fetch_pc = "raised"
    /\ attempt = 2
    /\ Len(all_chunks) = 1
    /\ ~returned.exists
    /\ ~price.exists

\* every page fetched ends with a bar whose close time is at least the
\* startTime it was asked with
LastBarNotBefore ==
    \A i \in DOMAIN all_chunks :
        all_chunks[i][Len(all_chunks[i])].timestamp_utc >= asked[i]

\* every bar of every page fetched has a close time at least the startTime
\* the page was asked with
AllBarsNotBefore ==
    \A i \in DOMAIN all_chunks : \A n \in DOMAIN all_chunks[i] :
        all_chunks[i][n].timestamp_utc >= asked[i]

FetchEnded == fetch_pc \in {"returned", "raised"}

\* the step adds a page to the pages fetched
PageAdded == Len(all_chunks') = Len(all_chunks) + 1

\* each bar returned is in a page asked for with a startTime not after it
ReturnedWithinAsked ==
    \A b \in Range(returned.rows) :
        \E i \in DOMAIN all_chunks :
            /\ b \in Range(all_chunks[i])
            /\ asked[i] <= b.timestamp_utc

FiveStages == <<"telegram", "parse", "price", "build", "analyze">>

\* C22: run_analysis.py starts the five stages in the fixed order; a stage is
\* started only when every stage before it has succeeded, and no stage runs
\* that was not started; once a stage has failed the run exits with status 1
\* and starts no stage after it; it exits with status 0 only when all five
\* stages have succeeded.
C22_StagesInOrder ==
    /\ [](/\ Len(started) <= 5
          /\ \A i \in DOMAIN started : started[i] = FiveStages[i]
          /\ \A i \in DOMAIN started : \A j \in 1..(i - 1) : exit[started[j]] = Ok
          /\ \A s \in Scripts \ Range(started) : exit[s] = NotRun
          /\ \A i \in DOMAIN started :
                exit[started[i]].status = "error" => status = Some(1) /\ i = Len(started)
          /\ status = Some(1) =>
                started # <<>> /\ exit[started[Len(started)]].status = "error"
          /\ status = Some(0) => Len(started) = 5 /\ \A s \in Scripts : exit[s] = Ok)
    /\ [][status # NoStatus => UNCHANGED <<started, status, exit>>]_vars

\* the run has exited with status 0, the five stages started and ended well
C22_Witness ==
    /\ status = Some(0)
    /\ started = FiveStages
    /\ Len(dataset.rows) >= 1
    /\ events_out.exists

====
